---- MODULE Spec2Model ----
(***************************************************************************)
(* Model of hpccm/building_blocks/generic_cmake.py: the generic_cmake      *)
(* building block.  Construction (__init__) copies the keyword arguments   *)
(* into attributes, __setup fills the shell command list step by step,     *)
(* __instructions packages the block's instructions, and runtime(_from)    *)
(* derives the runtime-stage projection.                                   *)
(*                                                                         *)
(* Strings are sequences of tokens.  The token "/" is the path separator   *)
(* and no other token contains a slash, so posixpath's functions are       *)
(* modelled by what they do on the characters that matter to them.  The    *)
(* keys of build_environment are sequences of one-character tokens so that *)
(* Python's code-point ordering of strings can be computed.  The empty     *)
(* sequence is the empty string (falsy, like None).                        *)
(***************************************************************************)
EXTENDS Naturals, Sequences, FiniteSets

VARIABLES kwargs, self, pc, commands, src_directory, build_environment,
          remove, instructions, renders, runtimes

vars == <<kwargs, self, pc, commands, src_directory, build_environment,
          remove, instructions, renders, runtimes>>

-----------------------------------------------------------------------------
(* Bounds of the model *)

\* longest preconfigure / postinstall command list
MaxCmds == 2

\* most entries of a build_environment mapping
MaxEnv == 2

\* most rendering / runtime() calls made on a finalized block
MaxCalls == 2

-----------------------------------------------------------------------------
(* Strings and posixpath *)

SEP == "/"

\* str.startswith('/')
StartsWithSep(s) == Len(s) > 0 /\ s[1] = SEP

\* str.endswith('/')
EndsWithSep(s) == Len(s) > 0 /\ s[Len(s)] = SEP

\* posixpath.isabs(s)
isabs(s) == StartsWithSep(s)

\* posixpath.join(a, b)
join(a, b) ==
    IF StartsWithSep(b) THEN b
    ELSE IF a = <<>> \/ EndsWithSep(a) THEN a \o b
    ELSE a \o <<SEP>> \o b

\* s.rfind('/') + 1, counted in tokens
RFindSep(s) ==
    IF \E i \in 1..Len(s) : s[i] = SEP
    THEN CHOOSE i \in 1..Len(s) :
            /\ s[i] = SEP
            /\ \A j \in (i + 1)..Len(s) : s[j] # SEP
    ELSE 0

\* posixpath.basename(p)
basename(p) == SubSeq(p, RFindSep(p) + 1, Len(p))

\* ' '.join-like flattening of a sequence of strings, each followed by sep
RECURSIVE Flatten(_, _)
Flatten(ss, sep) ==
    IF ss = <<>> THEN <<>>
    ELSE Head(ss) \o <<sep>> \o Flatten(Tail(ss), sep)

\* the sequences over S of length at most n
SeqUpTo(S, n) == UNION {[1..m -> S] : m \in 0..n}

\* the sequences over S without repetition, of length at most n
DistinctSeqUpTo(S, n) ==
    {s \in SeqUpTo(S, n) : \A i, j \in 1..Len(s) : i # j => s[i] # s[j]}

Range(s) == {s[i] : i \in 1..Len(s)}

-----------------------------------------------------------------------------
(* The keyword arguments a caller may pass *)

URL == <<"https:", SEP, SEP, "x", SEP, "y", SEP, "pkg-1.0", ".tar.gz">>
REPOSITORY == <<"https:", SEP, SEP, "github.com", SEP, "lattice", SEP, "quda", ".git">>
BRANCH == <<"develop">>
COMMIT == <<"abc123">>

RelDirectory == <<"pkg-src">>
AbsDirectory == <<SEP, "opt", SEP, "src">>

RelBuildDirectory == <<"build">>
SiblingBuildDirectory == <<"..", SEP, "bld">>
AbsBuildDirectory == <<SEP, "var", SEP, "tmp", SEP, "xyz", SEP, "build">>

Prefix == <<SEP, "opt", SEP, "pkg">>

\* one-character tokens, in code-point order
Alphabet == <<"1", "2", "9", "A", "B", "_", "a">>

EnvKeys == {<<"A">>, <<"A", "B">>, <<"a">>}

\* the value a test mapping gives a key
EnvVal(key) == IF Len(key) = 1 THEN <<"1">> ELSE <<"2">>

\* a dict, as its items in insertion order
Dicts(n) ==
    {[i \in 1..Len(ks) |-> <<ks[i], EnvVal(ks[i])>>] : ks \in DistinctSeqUpTo(EnvKeys, n)}

DevelA == << <<<<"A">>, <<"1">>>> >>
RuntimeB == << <<<<"B", "_">>, <<"2">>>> >>
RuntimeA == << <<<<"A">>, <<"9">>>> >>

PreCmds == {<<"./bootstrap">>, <<"cd ", "sub">>}
PostCmds == {<<"strip ", "bin">>, <<"./selftest">>}

\* the lists of at most n commands over S in which neighbours differ
Alternating(S, n) ==
    {s \in SeqUpTo(S, n) : \A i \in 1..(Len(s) - 1) : s[i] # s[i + 1]}

\* the arguments of a minimal valid call: generic_cmake(url=URL)
Base ==
    [given |-> {},
     url |-> URL, repository |-> <<>>, branch |-> <<>>, commit |-> <<>>,
     recursive |-> FALSE, directory |-> <<>>,
     build_directory |-> <<>>, build_environment |-> <<>>,
     check |-> FALSE, install |-> TRUE, make |-> TRUE,
     cmake_opts |-> <<>>, toolchain |-> <<>>,
     devel_environment |-> <<>>, runtime_environment |-> <<>>,
     ldconfig |-> FALSE, libdir |-> <<>>, prefix |-> <<>>,
     preconfigure |-> <<>>, postinstall |-> <<>>,
     run_arguments |-> <<>>]

\* an argument that is either not passed or passed one of vals
Optional(key, vals) ==
    {<<{}, <<>>>>} \cup {<<{key}, v>> : v \in vals}

\* calls that vary the source description and the directories
SourceCalls ==
    {[Base EXCEPT !.url = u, !.repository = r, !.branch = b, !.commit = c,
                  !.recursive = rec, !.directory = d,
                  !.given = bd[1], !.build_directory = bd[2]] :
        u \in {<<>>, URL}, r \in {<<>>, REPOSITORY}, b \in {<<>>, BRANCH},
        c \in {<<>>, COMMIT}, rec \in BOOLEAN,
        d \in {<<>>, RelDirectory, AbsDirectory},
        bd \in Optional("build_directory",
                        {<<>>, RelBuildDirectory, SiblingBuildDirectory,
                         AbsBuildDirectory})}

\* calls that vary which steps are requested, for an archive installed to
\* Prefix and for a repository installed to the default prefix
StepCalls ==
    {[Base EXCEPT !.url = s[1], !.repository = s[2],
                  !.given = s[3], !.prefix = s[4],
                  !.preconfigure = pre, !.postinstall = post,
                  !.make = mk, !.check = ck, !.install = inst,
                  !.ldconfig = ld] :
        s \in {<<URL, <<>>, {"prefix"}, Prefix>>, <<<<>>, REPOSITORY, {}, <<>>>>},
        pre \in SeqUpTo(PreCmds, MaxCmds), post \in Alternating(PostCmds, MaxCmds),
        mk \in BOOLEAN, ck \in BOOLEAN, inst \in BOOLEAN, ld \in BOOLEAN}

\* calls that vary the three environment mappings and the linker cache;
\* those with a devel mapping also pass cmake options and a toolchain
EnvCalls ==
    {[Base EXCEPT !.build_environment = be,
                  !.devel_environment = de[1], !.runtime_environment = re,
                  !.ldconfig = ld,
                  !.given = p[1] \cup l[1], !.prefix = p[2], !.libdir = l[2],
                  !.cmake_opts = de[2], !.toolchain = de[3]] :
        be \in Dicts(MaxEnv),
        de \in {<<<<>>, <<>>, <<>>>>,
                <<DevelA, << <<"-D A=ON">>, <<"-D B=OFF">> >>, <<"CC=", "gcc">>>>},
        re \in {<<>>, RuntimeA, RuntimeB},
        ld \in BOOLEAN,
        p \in Optional("prefix", {<<>>, Prefix}),
        l \in Optional("libdir", {<<>>, <<"lib64">>})}

Calls == SourceCalls \cup StepCalls \cup EnvCalls

\* kwargs.get(key, default)
Get(k, key, default) == IF key \in k.given THEN k[key] ELSE default

-----------------------------------------------------------------------------
(* Attributes set by __init__ *)

\* the attributes the inherited templates keep (CMakeBuild, downloader,
\* envvars, ldconfig): super().__init__(**kwargs)
TemplateAttrs(k) ==
    [url |-> k.url, repository |-> k.repository,
     branch |-> k.branch, commit |-> k.commit,
     prefix |-> Get(k, "prefix", <<SEP, "usr", SEP, "local">>),
     ldconfig |-> k.ldconfig]

\* the attributes generic_cmake.__init__ assigns itself
OwnAttrs(k) ==
    [build_directory |-> Get(k, "build_directory", <<"build">>),
     build_environment |-> k.build_environment,
     check |-> k.check,
     cmake_opts |-> k.cmake_opts,
     directory |-> k.directory,
     environment_variables |-> k.devel_environment,
     install |-> k.install,
     libdir |-> Get(k, "libdir", <<"lib">>),
     make |-> k.make,
     postinstall |-> k.postinstall,
     preconfigure |-> k.preconfigure,
     recursive |-> k.recursive,
     run_arguments |-> k.run_arguments,
     runtime_environment_variables |-> k.runtime_environment,
     toolchain |-> k.toolchain,
     wd |-> <<SEP, "var", SEP, "tmp">>]

Merge(a, b) ==
    [f \in DOMAIN a \cup DOMAIN b |-> IF f \in DOMAIN a THEN a[f] ELSE b[f]]

Attrs(k) == Merge(OwnAttrs(k), TemplateAttrs(k))

-----------------------------------------------------------------------------
(* The step generators of the inherited templates *)

\* downloader: the source description is rejected: one of url and
\* repository must be specified.  branch and commit are only recognized
\* with a repository and are otherwise not looked at.
DownloadError(s, recursive) ==
    \/ s.url # <<>> /\ s.repository # <<>>
    \/ s.url = <<>> /\ s.repository = <<>>

\* downloader: the source description may be rejected.  For recursive the
\* parameter description only says that repository must be specified;
\* whether download_step raises for recursive with a url is left open, and
\* both outcomes are possible.
DownloadMayRaise(s, recursive) ==
    \/ DownloadError(s, recursive)
    \/ s.repository = <<>> /\ recursive

\* downloader: an archive or repository basename without its suffix
StripSuffix(b) ==
    IF Len(b) > 1 /\ b[Len(b)] \in {".tar.gz", ".git"}
    THEN SubSeq(b, 1, Len(b) - 1)
    ELSE b

\* downloader: the source directory download_step resolves
DownloadDirectory(s, wd) ==
    join(wd, StripSuffix(basename(IF s.url # <<>> THEN s.url ELSE s.repository)))

\* downloader.download_step(recursive, wd): the fetch command
download_step(s, recursive, wd) ==
    IF s.url # <<>>
    THEN <<"fetch-archive ">> \o s.url \o <<" into ">> \o wd
    ELSE <<"fetch-repository ">> \o s.repository
         \o (IF recursive THEN <<" --recursive">> ELSE <<>>)
         \o (IF s.branch # <<>> THEN <<" --branch ">> \o s.branch ELSE <<>>)
         \o (IF s.commit # <<>> THEN <<" --commit ">> \o s.commit ELSE <<>>)
         \o <<" into ">> \o wd

\* CMakeBuild.configure_step(build_directory, directory, environment, toolchain)
configure_step(s, build_dir, directory, env, tc) ==
    (IF build_dir # <<>>
     THEN <<"mkdir -p ">> \o build_dir \o <<" && cd ">> \o build_dir \o <<" && ">>
     ELSE <<"cd ">> \o directory \o <<" && ">>)
    \o Flatten(env, " ")
    \o (IF tc # <<>> THEN tc \o <<" ">> ELSE <<>>)
    \o <<"cmake ">>
    \o (IF s.prefix # <<>> THEN <<"-DCMAKE_INSTALL_PREFIX=">> \o s.prefix \o <<" ">>
        ELSE <<>>)
    \o Flatten(s.cmake_opts, " ")
    \o directory

\* CMakeBuild.build_step(target)
build_step(target) ==
    IF target = <<>> THEN <<"make">> ELSE <<"make ">> \o target

\* ldconfig.ldcache_step(directory)
ldcache_step(directory) == <<"register-ldcache ">> \o directory

\* rm.cleanup_step(items)
cleanup_step(items) == <<"rm -rf ">> \o Flatten(items, " ")

\* envvars.environment_step(runtime)
environment_step(s, runtime) ==
    IF runtime THEN s.runtime_environment_variables ELSE s.environment_variables

\* the primitives, as the fields they are constructed with
comment(text) == [type |-> "comment", text |-> text]
shell(arguments, cmds) == [type |-> "shell", arguments |-> arguments, commands |-> cmds]
environment(variables) == [type |-> "environment", variables |-> variables]
copy(from, src, dest) == [type |-> "copy", from |-> from, src |-> src, dest |-> dest]

\* str(x) of a primitive is not the empty string
Renders(x) ==
    CASE x.type = "comment" -> x.text # <<>>
      [] x.type = "shell" -> x.commands # <<>>
      [] x.type = "environment" -> x.variables # <<>>
      [] OTHER -> TRUE

\* bb_base.__str__: the block's instructions that render to something
Str(instrs) == SelectSeq(instrs, Renders)

-----------------------------------------------------------------------------
(* Python's ordering of strings and sorted() *)

\* ord(c), up to an order-preserving renumbering
Ord(c) == CHOOSE i \in 1..Len(Alphabet) : Alphabet[i] = c

\* a < b for two strings: code-point lexicographic order
RECURSIVE StrLess(_, _)
StrLess(a, b) ==
    IF b = <<>> THEN FALSE
    ELSE IF a = <<>> THEN TRUE
    ELSE IF Head(a) = Head(b) THEN StrLess(Tail(a), Tail(b))
    ELSE Ord(Head(a)) < Ord(Head(b))

\* x < y for two (key, value) tuples
ItemLess(x, y) ==
    StrLess(x[1], y[1]) \/ (x[1] = y[1] /\ StrLess(x[2], y[2]))

RECURSIVE Insert(_, _)
Insert(x, sorted) ==
    IF sorted = <<>> THEN <<x>>
    ELSE IF ItemLess(x, Head(sorted)) THEN <<x>> \o sorted
    ELSE <<Head(sorted)>> \o Insert(x, Tail(sorted))

\* sorted(d.items())
RECURSIVE Sorted(_)
Sorted(items) ==
    IF items = <<>> THEN <<>> ELSE Insert(Head(items), Sorted(Tail(items)))

-----------------------------------------------------------------------------
(* The pieces of __setup, __instructions and runtime *)

\* self.src_directory after the "directory" override
SourceDirectory(s, downloaded) ==
    IF s.directory # <<>>
    THEN IF isabs(s.directory) THEN s.directory ELSE join(s.wd, s.directory)
    ELSE downloaded

\* Preconfigure with the directory change emitted for an empty list too
Preconfigure_AlwaysCd(s, srcdir) ==
    << <<"cd ">> \o srcdir >> \o s.preconfigure

\* the commands of the preconfigure group
Preconfigure(s, srcdir) ==
    IF s.preconfigure # <<>>
    THEN << <<"cd ">> \o srcdir >> \o s.preconfigure
    ELSE <<>>

\* BuildEnvironment without sorted(): the mapping's own iteration order
BuildEnvironment_Unsorted(s) ==
    [i \in 1..Len(s.build_environment) |->
        s.build_environment[i][1] \o <<"=">> \o s.build_environment[i][2]]

\* the local list build_environment handed to configure_step
BuildEnvironment(s) ==
    IF s.build_environment # <<>>
    THEN LET items == Sorted(s.build_environment)
         IN  [i \in 1..Len(items) |-> items[i][1] \o <<"=">> \o items[i][2]]
    ELSE <<>>

\* the commands of the postinstall group
Postinstall(s) ==
    IF s.postinstall # <<>>
    THEN << <<"cd ">> \o s.prefix >> \o s.postinstall
    ELSE <<>>

\* the linker-cache command
Ldcache(s) == ldcache_step(join(s.prefix, s.libdir))

\* Remove without the posixpath.isabs test on the build directory
Remove_AnyBuildDirectory(s, srcdir) ==
    <<srcdir>>
    \o (IF s.url # <<>> THEN <<join(s.wd, basename(s.url))>> ELSE <<>>)
    \o (IF s.build_directory # <<>> THEN <<s.build_directory>> ELSE <<>>)

\* the local list remove handed to cleanup_step
Remove(s, srcdir) ==
    <<srcdir>>
    \o (IF s.url # <<>> THEN <<join(s.wd, basename(s.url))>> ELSE <<>>)
    \o (IF s.build_directory # <<>> /\ isabs(s.build_directory)
        THEN <<s.build_directory>> ELSE <<>>)

\* the comment naming the source, if any
SourceComment(s) ==
    IF s.url # <<>> THEN <<comment(s.url)>>
    ELSE IF s.repository # <<>> THEN <<comment(s.repository)>>
    ELSE <<>>

\* BlockInstructions exporting the devel and the runtime mapping together
BlockInstructions_Merged(s, cmds) ==
    SourceComment(s)
    \o <<shell(s.run_arguments, cmds)>>
    \o <<environment(environment_step(s, FALSE) \o environment_step(s, TRUE))>>

\* BlockInstructions adding the environment before the shell instruction
BlockInstructions_EnvironmentFirst(s, cmds) ==
    SourceComment(s)
    \o <<environment(environment_step(s, FALSE))>>
    \o <<shell(s.run_arguments, cmds)>>

\* the instructions __instructions adds to the block
BlockInstructions(s, cmds) ==
    SourceComment(s)
    \o <<shell(s.run_arguments, cmds)>>
    \o <<environment(environment_step(s, FALSE))>>

\* runtime with the environment placed before the linker-cache step
runtime_EnvironmentFirst(s, from) ==
    IF s.prefix # <<>>
    THEN SourceComment(s)
         \o <<copy(from, s.prefix, s.prefix)>>
         \o (IF s.runtime_environment_variables # <<>>
             THEN <<environment(environment_step(s, TRUE))>> ELSE <<>>)
         \o (IF s.ldconfig THEN <<shell(<<>>, <<Ldcache(s)>>)>> ELSE <<>>)
    ELSE <<>>

\* runtime registering the linker cache only for a block that ran install
runtime_OnlyIfInstalled(s, from) ==
    IF s.prefix # <<>>
    THEN SourceComment(s)
         \o <<copy(from, s.prefix, s.prefix)>>
         \o (IF s.ldconfig /\ s.install THEN <<shell(<<>>, <<Ldcache(s)>>)>> ELSE <<>>)
         \o (IF s.runtime_environment_variables # <<>>
             THEN <<environment(environment_step(s, TRUE))>> ELSE <<>>)
    ELSE <<>>

\* runtime(_from): the instructions whose renderings are joined, none for
\* an empty prefix
runtime(s, from) ==
    IF s.prefix # <<>>
    THEN SourceComment(s)
         \o <<copy(from, s.prefix, s.prefix)>>
         \o (IF s.ldconfig THEN <<shell(<<>>, <<Ldcache(s)>>)>> ELSE <<>>)
         \o (IF s.runtime_environment_variables # <<>>
             THEN <<environment(environment_step(s, TRUE))>> ELSE <<>>)
    ELSE <<>>

-----------------------------------------------------------------------------
(* The state machine *)

\* the stage names a caller passes to runtime(_from)
Froms == {<<"0">>, <<"devel">>}

\* __init__ up to the call of __setup: the attributes are assigned, the
\* command list is empty, the block holds no instruction
Init ==
    /\ kwargs \in Calls
    /\ self = Attrs(kwargs)
    /\ pc = "setup_download"
    /\ commands = <<>>
    /\ src_directory = <<>>
    /\ build_environment = <<>>
    /\ remove = <<>>
    /\ instructions = <<>>
    /\ renders = <<>>
    /\ runtimes = <<>>

\* Setup_download with the source checked only after a command was appended
Setup_download_AppendFirst ==
    /\ pc = "setup_download"
    /\ commands' = Append(commands, <<"cd ">> \o self.wd)
    /\ src_directory' = SourceDirectory(self, DownloadDirectory(self, self.wd))
    /\ \/ DownloadMayRaise(self, self.recursive) /\ pc' = "failed"
       \/ ~DownloadError(self, self.recursive) /\ pc' = "setup_preconfigure"
    /\ UNCHANGED <<kwargs, self, build_environment, remove, instructions,
                   renders, runtimes>>

\* __setup: get the source; download_step raises before anything is appended
Setup_download ==
    /\ pc = "setup_download"
    /\ \/ /\ DownloadMayRaise(self, self.recursive)
          /\ pc' = "failed"
          /\ UNCHANGED <<commands, src_directory>>
       \/ /\ ~DownloadError(self, self.recursive)
          /\ commands' = Append(commands, download_step(self, self.recursive, self.wd))
          /\ src_directory' = SourceDirectory(self, DownloadDirectory(self, self.wd))
          /\ pc' = "setup_preconfigure"
    /\ UNCHANGED <<kwargs, self, build_environment, remove, instructions,
                   renders, runtimes>>

\* __setup: preconfigure setup
Setup_preconfigure ==
    /\ pc = "setup_preconfigure"
    /\ commands' = commands \o Preconfigure(self, src_directory)
    /\ pc' = "setup_configure"
    /\ UNCHANGED <<kwargs, self, src_directory, build_environment, remove,
                   instructions, renders, runtimes>>

\* __setup: configure
Setup_configure ==
    /\ pc = "setup_configure"
    /\ build_environment' = BuildEnvironment(self)
    /\ commands' = Append(commands,
                          configure_step(self, self.build_directory, src_directory,
                                         build_environment', self.toolchain))
    /\ pc' = "setup_make"
    /\ UNCHANGED <<kwargs, self, src_directory, remove, instructions,
                   renders, runtimes>>

\* __setup: build
Setup_make ==
    /\ pc = "setup_make"
    /\ commands' = IF self.make THEN Append(commands, build_step(<<>>)) ELSE commands
    /\ pc' = "setup_check"
    /\ UNCHANGED <<kwargs, self, src_directory, build_environment, remove,
                   instructions, renders, runtimes>>

\* __setup: check the build
Setup_check ==
    /\ pc = "setup_check"
    /\ commands' = IF self.check THEN Append(commands, build_step(<<"check">>))
                   ELSE commands
    /\ pc' = "setup_install"
    /\ UNCHANGED <<kwargs, self, src_directory, build_environment, remove,
                   instructions, renders, runtimes>>

\* __setup: install
Setup_install ==
    /\ pc = "setup_install"
    /\ commands' = IF self.install THEN Append(commands, build_step(<<"install">>))
                   ELSE commands
    /\ pc' = "setup_postinstall"
    /\ UNCHANGED <<kwargs, self, src_directory, build_environment, remove,
                   instructions, renders, runtimes>>

\* __setup: postinstall commands
Setup_postinstall ==
    /\ pc = "setup_postinstall"
    /\ commands' = commands \o Postinstall(self)
    /\ pc' = "setup_ldconfig"
    /\ UNCHANGED <<kwargs, self, src_directory, build_environment, remove,
                   instructions, renders, runtimes>>

\* Setup_ldconfig rejecting an empty libdir
Setup_ldconfig_Rejects ==
    /\ pc = "setup_ldconfig"
    /\ commands' = IF self.ldconfig /\ self.libdir # <<>>
                   THEN Append(commands, Ldcache(self)) ELSE commands
    /\ pc' = IF self.ldconfig /\ self.libdir = <<>> THEN "failed" ELSE "setup_cleanup"
    /\ UNCHANGED <<kwargs, self, src_directory, build_environment, remove,
                   instructions, renders, runtimes>>

\* __setup: set library path
Setup_ldconfig ==
    /\ pc = "setup_ldconfig"
    /\ commands' = IF self.ldconfig THEN Append(commands, Ldcache(self)) ELSE commands
    /\ pc' = "setup_cleanup"
    /\ UNCHANGED <<kwargs, self, src_directory, build_environment, remove,
                   instructions, renders, runtimes>>

\* __setup: cleanup
Setup_cleanup ==
    /\ pc = "setup_cleanup"
    /\ remove' = Remove(self, src_directory)
    /\ commands' = Append(commands, cleanup_step(remove'))
    /\ pc' = "instructions"
    /\ UNCHANGED <<kwargs, self, src_directory, build_environment, instructions,
                   renders, runtimes>>

\* __instructions: fill in container instructions; construction returns
Instructions ==
    /\ pc = "instructions"
    /\ instructions' = instructions \o BlockInstructions(self, commands)
    /\ pc' = "finalized"
    /\ UNCHANGED <<kwargs, self, commands, src_directory, build_environment,
                   remove, renders, runtimes>>

\* a caller renders the build stage: str(block)
Call_str ==
    /\ pc = "finalized"
    /\ Len(renders) + Len(runtimes) < MaxCalls
    /\ renders' = Append(renders, Str(instructions))
    /\ UNCHANGED <<kwargs, self, pc, commands, src_directory, build_environment,
                   remove, instructions, runtimes>>

\* Call_runtime building its linker-cache step in the block's command list
Call_runtime_Appends ==
    /\ pc = "finalized"
    /\ Len(renders) + Len(runtimes) < MaxCalls
    /\ \E from \in Froms :
          runtimes' = Append(runtimes, <<from, runtime(self, from)>>)
    /\ commands' = IF self.ldconfig THEN Append(commands, Ldcache(self)) ELSE commands
    /\ UNCHANGED <<kwargs, self, pc, src_directory, build_environment,
                   remove, instructions, renders>>

\* a caller derives the runtime stage: block.runtime(_from)
Call_runtime ==
    /\ pc = "finalized"
    /\ Len(renders) + Len(runtimes) < MaxCalls
    /\ \E from \in Froms :
          runtimes' = Append(runtimes, <<from, runtime(self, from)>>)
    /\ UNCHANGED <<kwargs, self, pc, commands, src_directory, build_environment,
                   remove, instructions, renders>>

Next ==
    \/ Setup_download
    \/ Setup_preconfigure
    \/ Setup_configure
    \/ Setup_make
    \/ Setup_check
    \/ Setup_install
    \/ Setup_postinstall
    \/ Setup_ldconfig
    \/ Setup_cleanup
    \/ Instructions
    \/ Call_str
    \/ Call_runtime

Spec == Init /\ [][Next]_vars

-----------------------------------------------------------------------------
(* Vocabulary of the properties *)

\* __setup has run to its end
SetupDone == pc \in {"instructions", "finalized"}

\* the source descriptions said to be rejected: both url and repository,
\* neither, or branch, commit or recursive without repository
BadSource ==
    \/ kwargs.url # <<>> /\ kwargs.repository # <<>>
    \/ kwargs.url = <<>> /\ kwargs.repository = <<>>
    \/ kwargs.repository = <<>>
       /\ (kwargs.branch # <<>> \/ kwargs.commit # <<>> \/ kwargs.recursive)

\* the values in effect for the arguments that have a non-empty default
EffPrefix == IF "prefix" \in kwargs.given THEN kwargs.prefix ELSE <<SEP, "usr", SEP, "local">>
EffLibdir == IF "libdir" \in kwargs.given THEN kwargs.libdir ELSE <<"lib">>
EffBuildDirectory ==
    IF "build_directory" \in kwargs.given THEN kwargs.build_directory ELSE <<"build">>

\* the comment that names the source
NamedSource == IF kwargs.url # <<>> THEN kwargs.url ELSE kwargs.repository

\* the instructions of type t in a sequence of instructions
OfType(instrs, t) == {i \in 1..Len(instrs) : instrs[i].type = t}

-----------------------------------------------------------------------------
(* C1 *)

\* the configure command of the finished command list
C1_Configure ==
    configure_step(self, EffBuildDirectory, src_directory, build_environment,
                   kwargs.toolchain)

\* the groups of the claim, concatenated in the claim's order
C1_Groups ==
    << download_step(self, kwargs.recursive, self.wd) >>
    \o (IF kwargs.preconfigure # <<>>
        THEN << <<"cd ">> \o src_directory >> \o kwargs.preconfigure ELSE <<>>)
    \o << C1_Configure >>
    \o (IF kwargs.make THEN << build_step(<<>>) >> ELSE <<>>)
    \o (IF kwargs.check THEN << build_step(<<"check">>) >> ELSE <<>>)
    \o (IF kwargs.install THEN << build_step(<<"install">>) >> ELSE <<>>)
    \o (IF kwargs.postinstall # <<>>
        THEN << <<"cd ">> \o EffPrefix >> \o kwargs.postinstall ELSE <<>>)
    \o (IF kwargs.ldconfig
        THEN << ldcache_step(join(EffPrefix, EffLibdir)) >> ELSE <<>>)
    \o << cleanup_step(remove) >>

\* C1: once __setup has finished, the command list is exactly fetch,
\* (cd source directory + preconfigure), configure, (make), (check),
\* (install), (cd prefix + postinstall), (ldconfig), cleanup, in this order;
\* each optional group is there iff its toggle is set, the configure command
\* occurs exactly once, and no cd is emitted for an empty list.
C1_StepOrder ==
    SetupDone =>
        /\ commands = C1_Groups
        /\ Cardinality({i \in 1..Len(commands) : commands[i] = C1_Configure}) = 1
        /\ Len(commands) =
             3 + (IF kwargs.preconfigure # <<>> THEN 1 + Len(kwargs.preconfigure) ELSE 0)
               + (IF kwargs.make THEN 1 ELSE 0) + (IF kwargs.check THEN 1 ELSE 0)
               + (IF kwargs.install THEN 1 ELSE 0)
               + (IF kwargs.postinstall # <<>> THEN 1 + Len(kwargs.postinstall) ELSE 0)
               + (IF kwargs.ldconfig THEN 1 ELSE 0)

\* every group requested at once
C1_Witness ==
    /\ pc = "finalized"
    /\ Len(kwargs.preconfigure) = MaxCmds /\ Len(kwargs.postinstall) = MaxCmds
    /\ kwargs.make /\ kwargs.check /\ kwargs.install /\ kwargs.ldconfig
    /\ Len(commands) = 9 + 2 * MaxCmds

-----------------------------------------------------------------------------
(* C2 *)

\* the projection the claim describes for install location p, from stage from
C2_Projection(p, from) ==
    << comment(NamedSource) >>
    \o << copy(from, p, p) >>
    \o (IF kwargs.ldconfig
        THEN << shell(<<>>, << ldcache_step(join(p, EffLibdir)) >>) >> ELSE <<>>)
    \o (IF kwargs.runtime_environment # <<>>
        THEN << environment(kwargs.runtime_environment) >> ELSE <<>>)

\* C2 as stated: runtime(_from) yields comment, copy, (linker cache iff
\* ldconfig), (environment iff runtime_environment is non-empty) for a
\* non-empty prefix, and nothing when the prefix is unset or empty.
C2_RuntimeAsStated ==
    \A i \in 1..Len(runtimes) :
        IF "prefix" \in kwargs.given /\ kwargs.prefix # <<>>
        THEN runtimes[i][2] = C2_Projection(kwargs.prefix, runtimes[i][1])
        ELSE runtimes[i][2] = <<>>

\* C2 amended: the same, except that only an empty prefix yields nothing; a
\* prefix that is not passed takes the default /usr/local and is projected
\* like any other.
C2_Runtime ==
    \A i \in 1..Len(runtimes) :
        IF EffPrefix # <<>>
        THEN runtimes[i][2] = C2_Projection(EffPrefix, runtimes[i][1])
        ELSE runtimes[i][2] = <<>>

\* a projection with all four instructions
C2_Witness ==
    /\ Len(runtimes) > 0
    /\ kwargs.prefix = Prefix
    /\ kwargs.ldconfig /\ kwargs.runtime_environment # <<>>
    /\ Len(runtimes[1][2]) = 4

-----------------------------------------------------------------------------
(* C3 *)

\* <working root>/<basename of url> of the one archive url of the model
C3_Archive == <<SEP, "var", SEP, "tmp", SEP, "pkg-1.0", ".tar.gz">>

\* C3: the paths handed to the cleanup step are the source directory, then
\* the downloaded archive iff the source is an archive url, then the build
\* directory iff it is non-empty and absolute; a relative or empty build
\* directory is never among them.
C3_CleanupPaths ==
    SetupDone =>
        LET bd == EffBuildDirectory
            absolute == bd # <<>> /\ bd[1] = SEP
        IN  /\ remove =
                 << src_directory >>
                 \o (IF kwargs.url # <<>> THEN << C3_Archive >> ELSE <<>>)
                 \o (IF absolute THEN << bd >> ELSE <<>>)
            /\ ~absolute => bd \notin Range(remove)
            /\ commands[Len(commands)] = cleanup_step(remove)

\* an archive source with an absolute build directory: three paths
C3_Witness ==
    /\ pc = "finalized"
    /\ kwargs.url # <<>>
    /\ EffBuildDirectory = AbsBuildDirectory
    /\ Len(remove) = 3

-----------------------------------------------------------------------------
(* C4 *)

\* other settings of the arguments that only concern the build
C4_BuildOnly ==
    {[build_environment |-> IF b THEN RuntimeB ELSE <<>>,
      preconfigure |-> IF b THEN << <<"./bootstrap">> >> ELSE <<>>,
      postinstall |-> IF c THEN << <<"strip ", "bin">> >> ELSE <<>>,
      cmake_opts |-> IF c THEN << <<"-D A=ON">> >> ELSE <<>>,
      build_directory |-> IF b THEN AbsBuildDirectory ELSE <<>>,
      toolchain |-> IF c THEN <<"CC=", "gcc">> ELSE <<>>,
      make |-> b, check |-> c, install |-> ~b, devel_environment |-> de] :
        b \in BOOLEAN, c \in BOOLEAN, de \in {<<>>, RuntimeB}}

\* the block s with its build-only attributes replaced by those of v
C4_Vary(s, v) ==
    [s EXCEPT !.build_environment = v.build_environment,
              !.preconfigure = v.preconfigure, !.postinstall = v.postinstall,
              !.cmake_opts = v.cmake_opts,
              !.build_directory = v.build_directory,
              !.toolchain = v.toolchain, !.make = v.make, !.check = v.check,
              !.install = v.install,
              !.environment_variables = v.devel_environment]

\* C4: what runtime(_from) returned is what it returns for every block that
\* agrees on prefix, libdir, ldconfig, runtime_environment and the source,
\* whatever its build-only arguments are.
C4_RuntimeIgnoresBuild ==
    Len(runtimes) > 0 =>
        LET last == runtimes[Len(runtimes)]
        IN  \A v \in C4_BuildOnly : runtime(C4_Vary(self, v), last[1]) = last[2]

\* a projection taken from a block with build-only arguments set
C4_Witness ==
    /\ Len(runtimes) > 0
    /\ Len(runtimes[1][2]) > 2
    /\ kwargs.devel_environment # <<>>
    /\ kwargs.build_environment # <<>>
    /\ kwargs.cmake_opts # <<>>

-----------------------------------------------------------------------------
(* C5 *)

Keys(d) == {d[i][1] : i \in 1..Len(d)}

\* C5: the block's environment instruction carries exactly the devel
\* mapping and the projection's exactly the runtime mapping: a rendering
\* exports the devel mapping whenever it is non-empty, a projection never
\* names a variable that is only in devel_environment, and with an empty
\* runtime_environment it has no environment instruction at all.
C5_EnvironmentsApart ==
    /\ \A i \in OfType(instructions, "environment") :
          instructions[i].variables = kwargs.devel_environment
    /\ \A r \in 1..Len(renders) :
          /\ kwargs.devel_environment # <<>> =>
                OfType(renders[r], "environment") # {}
          /\ \A i \in OfType(renders[r], "environment") :
                renders[r][i].variables = kwargs.devel_environment
    /\ \A r \in 1..Len(runtimes) :
          /\ kwargs.runtime_environment = <<>> =>
                OfType(runtimes[r][2], "environment") = {}
          /\ \A i \in OfType(runtimes[r][2], "environment") :
                /\ runtimes[r][2][i].variables = kwargs.runtime_environment
                /\ Keys(runtimes[r][2][i].variables)
                     \cap (Keys(kwargs.devel_environment)
                             \ Keys(kwargs.runtime_environment)) = {}

\* devel_environment = {A: 1}, runtime_environment = {}: rendered and projected
C5_Witness ==
    /\ kwargs.devel_environment = DevelA
    /\ kwargs.runtime_environment = <<>>
    /\ Len(renders) > 0 /\ OfType(renders[1], "environment") # {}
    /\ Len(runtimes) > 0 /\ Len(runtimes[1][2]) > 0

-----------------------------------------------------------------------------
(* C6 *)

C6_NotOneSource == (kwargs.url # <<>>) = (kwargs.repository # <<>>)

\* recursive given without repository
C6_RecursiveAlone == kwargs.recursive /\ kwargs.repository = <<>>

-----------------------------------------------------------------------------
(* C7 *)

\* C7: every rendering of the build stage is the comment naming the source,
\* the shell instruction with the command list, and the environment
\* instruction with the devel mapping, in this order, the environment
\* instruction being there iff devel_environment is non-empty.
C7_BuildStage ==
    \A r \in 1..Len(renders) :
        /\ renders[r] =
             << comment(NamedSource) >>
             \o << shell(kwargs.run_arguments, commands) >>
             \o (IF kwargs.devel_environment # <<>>
                 THEN << environment(kwargs.devel_environment) >> ELSE <<>>)
        /\ kwargs.devel_environment = <<>> =>
              OfType(renders[r], "environment") = {}
        /\ \A i \in 1..Len(renders[r]) :
              \E j \in i..Len(instructions) : instructions[j] = renders[r][i]

\* a rendering without and with an environment instruction is two or three long
C7_Witness ==
    /\ Len(renders) > 0
    /\ kwargs.devel_environment = <<>>
    /\ Len(renders[1]) = 2
    /\ Len(instructions) = 3

-----------------------------------------------------------------------------
(* C8 *)

\* the keys of the model in Python's order: sorted(['a', 'AB', 'A'])
C8_KeyOrder == << <<"A">>, <<"A", "B">>, <<"a">> >>

C8_Rank(key) == CHOOSE i \in 1..Len(C8_KeyOrder) : C8_KeyOrder[i] = key

\* the mappings with the items of d, inserted in any order
C8_Reorderings(d) ==
    {e \in [1..Len(d) -> Range(d)] : Range(e) = Range(d)}

\* C8: the environment list handed to configure_step has one KEY=VALUE entry
\* per build_environment entry, in ascending order of KEY, and the configure
\* command is the same for every insertion order of the same entries; an
\* empty mapping gives an empty list.
C8_SortedBuildEnvironment ==
    pc \notin {"setup_download", "setup_preconfigure", "setup_configure", "failed"} =>
        LET d == kwargs.build_environment
            position == 2 + (IF kwargs.preconfigure # <<>>
                             THEN 1 + Len(kwargs.preconfigure) ELSE 0)
        IN  /\ Len(build_environment) = Len(d)
            /\ \A i \in 1..Len(d) :
                  \E j \in 1..Len(d) :
                      build_environment[j] = d[i][1] \o <<"=">> \o d[i][2]
            /\ \A i, j \in 1..Len(d) :
                  (C8_Rank(d[i][1]) < C8_Rank(d[j][1])) =>
                      \E a, b \in 1..Len(d) :
                          /\ a < b
                          /\ build_environment[a] = d[i][1] \o <<"=">> \o d[i][2]
                          /\ build_environment[b] = d[j][1] \o <<"=">> \o d[j][2]
            /\ \A e \in C8_Reorderings(d) :
                  configure_step(self, EffBuildDirectory, src_directory,
                                 BuildEnvironment([self EXCEPT !.build_environment = e]),
                                 kwargs.toolchain) = commands[position]

\* two entries inserted in descending key order, configured
C8_Witness ==
    /\ pc = "finalized"
    /\ Len(kwargs.build_environment) = MaxEnv
    /\ kwargs.build_environment[1][1] = <<"a">>
    /\ kwargs.build_environment[2][1] = <<"A">>
    /\ build_environment[1] = <<"A", "=", "1">>

-----------------------------------------------------------------------------
(* C9 *)

\* every call recorded in the primed state returned what the first call of
\* its kind returned
C9_SameResults ==
    /\ \A r \in 1..Len(renders') : renders'[r] = renders'[1]
    /\ \A r, q \in 1..Len(runtimes') :
          runtimes'[r][1] = runtimes'[q][1] => runtimes'[r][2] = runtimes'[q][2]

\* C9: a finalized block stays finalized: no rendering and no runtime(_from)
\* call changes the command list or the block's instructions, and every
\* repeated call returns what the first returned; the command list and the
\* instructions change only while the block is unbuilt.
C9_Finalized ==
    [][/\ pc = "finalized" =>
            /\ pc' = "finalized"
            /\ commands' = commands
            /\ instructions' = instructions
            /\ C9_SameResults
       /\ (commands' # commands \/ instructions' # instructions) =>
            pc \notin {"finalized", "failed"}]_vars

\* a block projected twice from the same stage
C9_Witness ==
    /\ pc = "finalized"
    /\ Len(runtimes) = 2
    /\ runtimes[1][1] = runtimes[2][1]
    /\ Len(runtimes[2][2]) > 1
    /\ Len(commands) > 2 /\ Len(instructions) > 1

-----------------------------------------------------------------------------
(* C10 *)

\* ldconfig is requested and the libdir passed is empty
C10_NoLibdir == kwargs.ldconfig /\ "libdir" \in kwargs.given /\ kwargs.libdir = <<>>

\* a linker-cache command for the bare prefix, with or without the slash
C10_BareSteps == {ldcache_step(EffPrefix), ldcache_step(EffPrefix \o <<SEP>>)}

\* C10 as stated: ldconfig with no libdir is rejected during construction,
\* so the block is never finalized, never projected, and no linker-cache
\* step without a libdir component exists in the build stage or a projection.
C10_RejectedAsStated ==
    C10_NoLibdir =>
        /\ pc \notin {"setup_cleanup", "instructions", "finalized"}
        /\ Range(commands) \cap C10_BareSteps = {}
        /\ \A r \in 1..Len(runtimes) : \A i \in OfType(runtimes[r][2], "shell") :
              Range(runtimes[r][2][i].commands) \cap C10_BareSteps = {}

\* C10 amended: nothing checks libdir.  Construction fails only for a bad
\* source; with ldconfig set the build stage, once past the linker-cache
\* step, and every projection of a non-empty prefix hold the linker-cache
\* step for posixpath.join(prefix, libdir), libdir being "lib" when it is
\* not passed; for an empty libdir that is the prefix followed by a slash.
C10_LdconfigNeverRejected ==
    LET dir == IF EffLibdir = <<>> /\ EffPrefix # <<>>
               THEN EffPrefix \o <<SEP>>
               ELSE join(EffPrefix, EffLibdir)
    IN  /\ pc = "failed" => BadSource
        /\ (kwargs.ldconfig /\ pc \in {"setup_cleanup", "instructions", "finalized"}) =>
              Cardinality({i \in 1..Len(commands) : commands[i] = ldcache_step(dir)}) = 1
        /\ \A r \in 1..Len(runtimes) :
              (kwargs.ldconfig /\ EffPrefix # <<>>) =>
                  \E i \in OfType(runtimes[r][2], "shell") :
                      runtimes[r][2][i].commands = << ldcache_step(dir) >>

\* ldconfig with an empty libdir: built and projected
C10_Witness ==
    /\ C10_NoLibdir
    /\ pc = "finalized"
    /\ kwargs.prefix = Prefix
    /\ ldcache_step(Prefix \o <<SEP>>) \in Range(commands)
    /\ Len(runtimes) > 0

====
